---- MODULE Spec2Model ----
(***************************************************************************)
(* solve_timetable of src/timetable_ui.py as a state machine: one call of  *)
(* the function on one input, stepped through its four blocks (the error   *)
(* checks, the model construction, the CP-SAT solve, the extraction of the *)
(* result).  The CP-SAT model is the set of assignments its constraints    *)
(* accept; the solver returns, nondeterministically, any accepted          *)
(* assignment of minimal objective (no time limit is configured, so a      *)
(* feasible model is always solved to OPTIMAL).                            *)
(***************************************************************************)
EXTENDS Integers, Sequences, FiniteSets, TLC

VARIABLES data, periods_per_day, pc, model, schedule, solverInvoked, status,
          solution, result

vars == <<data, periods_per_day, pc, model, schedule, solverInvoked, status,
          solution, result>>

(***************************************************************************)
(* The explored inputs: up to Len(ClassNames) classes that list, together, *)
(* at most MaxPairs subjects; the subjects and the teacher entries are     *)
(* drawn from the names below; one period per day.                         *)
(***************************************************************************)
MaxPairs == 3

ClassNames == <<"10A", "10B">>
SubjectNames == <<"Math", "English">>
TeacherNames == {"Smith", "Jones"}
\* Subject strings of the teacher entries: one as in the subject list, one
\* with a leading blank.
EntrySubjects == {"Math", " English"}
PeriodsPerDayChoices == {1}

DAYS == 5

SlotsOf(ppd) == DAYS * ppd

SLOTS == SlotsOf(periods_per_day)

Slots == 0 .. (SLOTS - 1)

\* Periods values tried for a subject: a single period, one short of the
\* week, the whole week, one more than the week.
PeriodChoices(ppd) == {1, SlotsOf(ppd) - 1, SlotsOf(ppd), SlotsOf(ppd) + 1}

(***************************************************************************)
(* Helpers on sequences.                                                   *)
(***************************************************************************)
Range(seq) == {seq[i] : i \in 1 .. Len(seq)}

Contains(seq, x) == \E i \in 1 .. Len(seq) : seq[i] = x

NoDuplicates(seq) == \A i, j \in 1 .. Len(seq) : i # j => seq[i] # seq[j]

SeqsUpTo(S, n) == UNION {[1 .. k -> S] : k \in 0 .. n}

RECURSIVE SumSeq(_)
SumSeq(seq) == IF seq = <<>> THEN 0 ELSE Head(seq) + SumSeq(Tail(seq))

\* str.strip() on the strings of the model.
Strip(s) == IF s = " English" THEN "English" ELSE s

(***************************************************************************)
(* The input: data["classes"], data["subjects"], data["teachers"].         *)
(***************************************************************************)
SubjectLists == {l \in SeqsUpTo(Range(SubjectNames), Len(SubjectNames)) : NoDuplicates(l)}

ClassesOf(f) == [i \in DOMAIN f |-> [class |-> ClassNames[i], subjects |-> f[i]]]

ClassInputs ==
    {ClassesOf(f) : f \in {g \in SeqsUpTo(SubjectLists, Len(ClassNames)) :
                              SumSeq([i \in DOMAIN g |-> Len(g[i])]) <= MaxPairs}}

\* Subject lists without a repeated name, in the order of SubjectNames.
SubjectInputs(ppd) ==
    {l \in SeqsUpTo([Subject : Range(SubjectNames), Periods : PeriodChoices(ppd)],
                    Len(SubjectNames)) :
        \A i, j \in 1 .. Len(l) : i < j =>
            \E m, n \in 1 .. Len(SubjectNames) :
                m < n /\ l[i].Subject = SubjectNames[m] /\ l[j].Subject = SubjectNames[n]}

TeacherInputs == SeqsUpTo([Teacher : TeacherNames, Subject : EntrySubjects],
                          Cardinality(EntrySubjects))

(***************************************************************************)
(* Lines 22-24: the three views of the input.                              *)
(***************************************************************************)
classes == data.classes

\* Keys of a dict built from a sequence of keys, in insertion order.
RECURSIVE DictKeys(_)
DictKeys(keys) ==
    IF keys = <<>> THEN <<>>
    ELSE LET front == DictKeys(SubSeq(keys, 1, Len(keys) - 1))
             last == keys[Len(keys)]
         IN IF Contains(front, last) THEN front ELSE Append(front, last)

LastIndex(keys, k) == CHOOSE i \in 1 .. Len(keys) :
                         keys[i] = k /\ \A j \in (i + 1) .. Len(keys) : keys[j] # k

subjectKeys == DictKeys([i \in 1 .. Len(data.subjects) |-> data.subjects[i].Subject])

subjects == [s \in Range(subjectKeys) |->
                data.subjects[LastIndex([i \in 1 .. Len(data.subjects) |->
                                            data.subjects[i].Subject], s)].Periods]

teacherEntryKeys == [i \in 1 .. Len(data.teachers) |-> Strip(data.teachers[i].Subject)]

teacherKeys == DictKeys(teacherEntryKeys)

teachers == [s \in Range(teacherKeys) |->
                data.teachers[LastIndex(teacherEntryKeys, s)].Teacher]

(***************************************************************************)
(* Lines 26-40: the error checks made before the model is created.         *)
(***************************************************************************)
missing_teachers == SelectSeq(subjectKeys, LAMBDA s : s \notin DOMAIN teachers)

EmptyClasses == {i \in 1 .. Len(classes) : classes[i].subjects = <<>>}

\* A capacity check that is off by one.
OverCapacityOffByOne == SelectSeq(subjectKeys, LAMBDA s : subjects[s] > SLOTS + 1)

OverCapacity == SelectSeq(subjectKeys, LAMBDA s : subjects[s] > SLOTS)

Fail(kind, detail) == [status |-> "fail", kind |-> kind, detail |-> detail]

Min(S) == CHOOSE x \in S : \A y \in S : x <= y

ErrorChecks ==
    IF missing_teachers # <<>> THEN Fail("MissingTeacher", missing_teachers)
    ELSE IF classes = <<>> THEN Fail("NoClasses", <<>>)
    ELSE IF EmptyClasses # {} THEN Fail("EmptyClass", <<classes[Min(EmptyClasses)].class>>)
    ELSE IF OverCapacity # <<>> THEN Fail("OverCapacity", <<Head(OverCapacity)>>)
    ELSE [status |-> "ok"]

NoResult == [status |-> "none"]

NoSolution == [sched |-> <<>>, consecutive |-> {}, other |-> {}, objective |-> 0]

Init ==
    /\ periods_per_day \in PeriodsPerDayChoices
    /\ data \in {[classes |-> c, subjects |-> s, teachers |-> t] :
                    c \in ClassInputs, s \in SubjectInputs(periods_per_day),
                    t \in TeacherInputs}
    /\ pc = "check"
    /\ model = "none"
    /\ schedule = {}
    /\ solverInvoked = FALSE
    /\ status = "none"
    /\ solution = NoSolution
    /\ result = NoResult

Validate ==
    /\ pc = "check"
    /\ IF ErrorChecks.status = "fail"
       THEN /\ result' = ErrorChecks
            /\ pc' = "done"
       ELSE /\ result' = result
            /\ pc' = "build"
    /\ UNCHANGED <<data, periods_per_day, model, schedule, solverInvoked, status, solution>>

(***************************************************************************)
(* Lines 42-55: the model and its decision variables.  The variables of a  *)
(* (class, subject) pair are created pair by pair, and the first subject   *)
(* that is not a key of subjects ends the call.                            *)
(***************************************************************************)
RECURSIVE PairsFrom(_)
PairsFrom(i) ==
    IF i > Len(classes) THEN <<>>
    ELSE [j \in 1 .. Len(classes[i].subjects) |->
             <<classes[i].class, classes[i].subjects[j]>>] \o PairsFrom(i + 1)

AllPairs == PairsFrom(1)

UnknownAt == {k \in 1 .. Len(AllPairs) : AllPairs[k][2] \notin DOMAIN subjects}

Build ==
    /\ pc = "build"
    /\ model' = "created"
    /\ IF UnknownAt # {}
       THEN /\ schedule' = Range(SubSeq(AllPairs, 1, Min(UnknownAt) - 1))
            /\ result' = Fail("UnknownSubject",
                              <<AllPairs[Min(UnknownAt)][2], AllPairs[Min(UnknownAt)][1]>>)
            /\ pc' = "done"
       ELSE /\ schedule' = Range(AllPairs)
            /\ result' = result
            /\ pc' = "solve"
    /\ UNCHANGED <<data, periods_per_day, solverInvoked, status, solution>>

(***************************************************************************)
(* Lines 57-76: the hard constraints.  An assignment of the decision       *)
(* variables is a function sched from the (class, subject) pairs to the    *)
(* set of slots whose variable is true.                                    *)
(***************************************************************************)
\* AddAtMostOne over a sequence of literals (a literal listed twice counts twice).
AddAtMostOne(lits) == Cardinality({i \in 1 .. Len(lits) : lits[i]}) <= 1

\* A period count that takes the Periods of the first subject of the list
\* for every subject.
PeriodCountOfFirst(S, subject) == Cardinality(S) = subjects[subjectKeys[1]]

\* Line 61: sum(schedule[class][subject]) == subjects[subject].
PeriodCountOK(S, subject) == Cardinality(S) = subjects[subject]

\* Class exclusivity that leaves out the last slot of the week.
ClassExclusiveButLast(sched) ==
    \A i \in 1 .. Len(classes) : \A s \in 0 .. (SLOTS - 2) :
        AddAtMostOne([j \in 1 .. Len(classes[i].subjects) |->
                         s \in sched[<<classes[i].class, classes[i].subjects[j]>>]])

\* Class exclusivity left out of the model.
ClassExclusiveDropped(sched) == sched = sched

\* Lines 63-64.
ClassExclusive(sched) ==
    \A i \in 1 .. Len(classes) : \A s \in Slots :
        AddAtMostOne([j \in 1 .. Len(classes[i].subjects) |->
                         s \in sched[<<classes[i].class, classes[i].subjects[j]>>]])

\* Lines 67-69.
teacher_subjects ==
    [t \in {teachers[s] : s \in DOMAIN teachers} |->
        SelectSeq(teacherKeys, LAMBDA s : teachers[s] = t)]

\* The name subject is not bound by the generator of lines 74-75: it is the
\* function's local, left by the last loop that assigned it (line 68, or
\* line 60 when teachers is empty).
LoopSubject ==
    IF teacherKeys # <<>> THEN teacherKeys[Len(teacherKeys)]
    ELSE LET c == classes[Len(classes)] IN c.subjects[Len(c.subjects)]

\* Lines 71-76.
TeacherConflicts(sched) ==
    \A t \in DOMAIN teacher_subjects : \A s \in Slots :
        LET subject == LoopSubject
            subs == teacher_subjects[t]
            cs == SelectSeq(classes, LAMBDA c : Contains(c.subjects, subject)
                                                  /\ Contains(subs, subject))
        IN AddAtMostOne([k \in 1 .. Len(cs) |-> s \in sched[<<cs[k].class, subject>>]])

\* The assignments that satisfy line 61 for every pair of ps.
RECURSIVE CountedSchedules(_)
CountedSchedules(ps) ==
    IF ps = {} THEN {<<>>}
    ELSE LET p == CHOOSE x \in ps : TRUE
         IN {f @@ (p :> S) : f \in CountedSchedules(ps \ {p}),
                             S \in {T \in SUBSET Slots : PeriodCountOK(T, p[2])}}

AcceptedSchedules ==
    {sched \in CountedSchedules(schedule) :
        ClassExclusive(sched) /\ TeacherConflicts(sched)}

(***************************************************************************)
(* Lines 78-104: the penalty variables and the objective.                  *)
(***************************************************************************)
\* constraint.OnlyEnforceIf(literal): the literal implies the constraint.
OnlyEnforceIf(constraint, literal) == literal => constraint

\* Keys of consecutive_penalties (lines 86-93) and other_penalties (96-101).
ConsecutiveKeys == {<<p[1], p[2], s>> : p \in schedule, s \in 0 .. (SLOTS - 2)}

OtherKeys == {<<p[1], p[2], period>> : p \in schedule, period \in 0 .. (periods_per_day - 1)}

\* Lines 89-92: AddBoolAnd([x[s], x[s + 1]]).
ConsecutiveConstraint(sched, k) ==
    k[3] \in sched[<<k[1], k[2]>>] /\ (k[3] + 1) \in sched[<<k[1], k[2]>>]

daily_slots(period) == {day * periods_per_day + period : day \in 0 .. (DAYS - 1)}

\* Line 100: sum(x[slot] for slot in daily_slots) > 1.
OtherConstraint(sched, k) ==
    Cardinality(daily_slots(k[3]) \cap sched[<<k[1], k[2]>>]) > 1

\* Line 104.
Objective(consecutive, other) == 3 * Cardinality(consecutive) + Cardinality(other)

\* The values the model accepts for a penalty variable, and the cheapest of
\* them.  Every penalty variable occurs in its own constraint only and with
\* a positive weight in the objective, so an assignment of minimal objective
\* gives each penalty variable its cheapest accepted value.
PenaltyValues(constraint) == {b \in BOOLEAN : OnlyEnforceIf(constraint, b)}

Cheapest(values) == IF FALSE \in values THEN FALSE ELSE TRUE

Assignment(sched) ==
    LET consecutive == {k \in ConsecutiveKeys :
                           Cheapest(PenaltyValues(ConsecutiveConstraint(sched, k)))}
        other == {k \in OtherKeys : Cheapest(PenaltyValues(OtherConstraint(sched, k)))}
    IN [sched |-> sched, consecutive |-> consecutive, other |-> other,
        objective |-> Objective(consecutive, other)]

(***************************************************************************)
(* Lines 106-108: the solve.                                               *)
(***************************************************************************)
Solve ==
    /\ pc = "solve"
    /\ solverInvoked' = TRUE
    /\ \E accepted \in {{Assignment(sched) : sched \in AcceptedSchedules}} :
          IF accepted = {}
          THEN /\ status' = "INFEASIBLE"
               /\ solution' = solution
          ELSE /\ status' = "OPTIMAL"
               /\ \E least \in {Min({a.objective : a \in accepted})} :
                     solution' \in {a \in accepted : a.objective = least}
    /\ pc' = "extract"
    /\ UNCHANGED <<data, periods_per_day, model, schedule, result>>

(***************************************************************************)
(* Lines 110-150: the result.  Slots are kept as integers (the code keys   *)
(* the timetable of a class by str(s)).                                    *)
(***************************************************************************)
SubjectsOf(c) == classes[CHOOSE i \in 1 .. Len(classes) : classes[i].class = c].subjects

\* Lines 117-123.
Timetable(sched) ==
    [c \in {classes[i].class : i \in 1 .. Len(classes)} |->
        [s \in Slots |-> SelectSeq(SubjectsOf(c), LAMBDA subject : s \in sched[<<c, subject>>])]]

\* Lines 126-132.
ClassConsecutives(tt) ==
    Cardinality({s \in 0 .. (SLOTS - 2) :
                    tt[s] # <<>> /\ tt[s + 1] # <<>> /\ tt[s][1] = tt[s + 1][1]})

\* A free-period count that leaves out the last slot of the week.
FreeCountButLast(tt) == Cardinality({s \in 0 .. (SLOTS - 2) : tt[s] = <<>>})

\* Line 137.
FreeCount(tt) == Cardinality({s \in Slots : tt[s] = <<>>})

Success(sol) ==
    LET timetable == Timetable(sol.sched)
    IN [status |-> "success",
        timetable |-> timetable,
        free_periods |-> [c \in DOMAIN timetable |-> FreeCount(timetable[c])],
        consecutive_repeats |->
            SumSeq([i \in 1 .. Len(classes) |-> ClassConsecutives(timetable[classes[i].class])]),
        solver_score |-> sol.objective,
        periods_per_day |-> periods_per_day,
        classes |-> [i \in 1 .. Len(classes) |-> classes[i].class]]

Extract ==
    /\ pc = "extract"
    /\ result' = IF status = "OPTIMAL" THEN Success(solution) ELSE Fail("Infeasible", <<>>)
    /\ pc' = "done"
    /\ UNCHANGED <<data, periods_per_day, model, schedule, solverInvoked, status, solution>>

Next == Validate \/ Build \/ Solve \/ Extract

Spec == Init /\ [][Next]_vars

(***************************************************************************)
(* What the properties below read from the input and the result.           *)
(***************************************************************************)
Succeeded == result.status = "success"

Declared(subject) == \E i \in 1 .. Len(data.subjects) : data.subjects[i].Subject = subject

DeclaredPeriods(subject) ==
    data.subjects[CHOOSE i \in 1 .. Len(data.subjects) :
                      data.subjects[i].Subject = subject].Periods

\* A teacher entry names a subject when its Subject, without the blanks
\* around it, is the subject.
HasTeacherEntry(subject) ==
    \E i \in 1 .. Len(data.teachers) : Strip(data.teachers[i].Subject) = subject

UsesUnknownSubject ==
    \E i \in 1 .. Len(data.classes) : \E j \in 1 .. Len(data.classes[i].subjects) :
        ~Declared(data.classes[i].subjects[j])

LacksTeacher == \E i \in 1 .. Len(data.subjects) : ~HasTeacherEntry(data.subjects[i].Subject)

HasEmptyClass == \E i \in 1 .. Len(data.classes) : data.classes[i].subjects = <<>>

ExceedsCapacity ==
    \E i \in 1 .. Len(data.subjects) : data.subjects[i].Periods > DAYS * periods_per_day

Defective == UsesUnknownSubject \/ LacksTeacher \/ HasEmptyClass \/ ExceedsCapacity

PassesValidation == data.classes # <<>> /\ ~Defective

\* The slots of class c whose timetable entry lists the subject.
SlotsListing(c, subject) == {s \in Slots : Contains(result.timetable[c][s], subject)}

ClassLoad(i) ==
    SumSeq([j \in 1 .. Len(data.classes[i].subjects) |->
               DeclaredPeriods(data.classes[i].subjects[j])])

\* The teacher of a subject: the Teacher of its last entry.
OwnerOf(subject) ==
    data.teachers[CHOOSE i \in 1 .. Len(data.teachers) :
                     /\ Strip(data.teachers[i].Subject) = subject
                     /\ \A j \in (i + 1) .. Len(data.teachers) :
                           Strip(data.teachers[j].Subject) # subject].Teacher

PairsOf(i) == {data.classes[i].subjects[j] : j \in 1 .. Len(data.classes[i].subjects)}

LessonsOf(t) ==
    {<<i, subject>> \in (1 .. Len(data.classes)) \X Range(SubjectNames) :
        subject \in PairsOf(i) /\ OwnerOf(subject) = t}

RECURSIVE SumPeriods(_)
SumPeriods(lessons) ==
    IF lessons = {} THEN 0
    ELSE LET l == CHOOSE x \in lessons : TRUE
         IN DeclaredPeriods(l[2]) + SumPeriods(lessons \ {l})

TeacherOverloaded == \E t \in TeacherNames : SumPeriods(LessonsOf(t)) > DAYS * periods_per_day

ClassOverloaded == \E i \in 1 .. Len(data.classes) : ClassLoad(i) > DAYS * periods_per_day

(***************************************************************************)
(* C1.  Teacher exclusivity: in a "success" result no teacher has two      *)
(* lessons (class, subject) of subjects he or she owns in the same slot.   *)
(* Stated as the claim has it; the model built by lines 66-76 does not     *)
(* enforce it.                                                             *)
(***************************************************************************)
C1_TeacherExclusivity ==
    Succeeded =>
        \A t \in TeacherNames : \A s \in Slots :
            Cardinality({l \in LessonsOf(t) :
                            s \in SlotsListing(data.classes[l[1]].class, l[2])}) <= 1

(***************************************************************************)
(* C2.  Period count: in a "success" result every subject of every class   *)
(* is listed in exactly as many slots of the class as its declared Periods.*)
(***************************************************************************)
C2_PeriodCount ==
    Succeeded =>
        \A i \in 1 .. Len(data.classes) : \A subject \in PairsOf(i) :
            Cardinality(SlotsListing(data.classes[i].class, subject)) = DeclaredPeriods(subject)

\* A success in which a class has two subjects, one of several periods.
C2_Witness ==
    /\ Succeeded
    /\ \E i \in 1 .. Len(data.classes) :
          /\ Len(data.classes[i].subjects) = 2
          /\ \E subject \in PairsOf(i) : DeclaredPeriods(subject) = SLOTS - 1

(***************************************************************************)
(* C3.  Class exclusivity: in a "success" result every timetable entry of  *)
(* every class lists at most one subject.                                  *)
(***************************************************************************)
C3_ClassExclusivity ==
    Succeeded =>
        \A i \in 1 .. Len(data.classes) : \A s \in Slots :
            Len(result.timetable[data.classes[i].class][s]) <= 1

\* A success in which the two subjects of a class fill its week.
C3_Witness ==
    /\ Succeeded
    /\ \E i \in 1 .. Len(data.classes) :
          /\ Len(data.classes[i].subjects) = 2
          /\ ClassLoad(i) = SLOTS
          /\ \A s \in Slots : Len(result.timetable[data.classes[i].class][s]) = 1

(***************************************************************************)
(* C4.  Teacher overload: a valid input that asks of one teacher more      *)
(* periods than there are slots ends in "fail".  Stated as the claim has   *)
(* it; the code returns "success" for such inputs.                         *)
(***************************************************************************)
C4_TeacherOverloadFails ==
    (pc = "done" /\ PassesValidation /\ TeacherOverloaded) => result.status = "fail"

(***************************************************************************)
(* C5.  Class overload: a valid input in which the Periods of the subjects *)
(* of some class sum to more than SLOTS never yields "success" and ends in *)
(* "fail".                                                                 *)
(***************************************************************************)
C5_ClassOverloadFails ==
    (PassesValidation /\ ClassOverloaded) =>
        /\ result.status # "success"
        /\ pc = "done" => result.status = "fail"

\* The solver was run on a valid input with an overloaded class and the call failed.
C5_Witness ==
    /\ pc = "done"
    /\ PassesValidation
    /\ ClassOverloaded
    /\ solverInvoked
    /\ result.status = "fail"
    /\ result.kind = "Infeasible"

(***************************************************************************)
(* C6.  Validation completeness: an input with an undeclared subject in a  *)
(* class, a subject without a teacher entry, a class without subjects or a *)
(* subject of more than SLOTS periods is never given to the solver, and    *)
(* the call ends in "fail".                                                *)
(***************************************************************************)
C6_DefectiveInputRejected ==
    Defective =>
        /\ ~solverInvoked
        /\ status = "none"
        /\ pc \in {"check", "build", "done"}
        /\ pc = "done" => result.status = "fail"

\* A call ended by the undeclared subject of a class, the one defect found
\* after the model was created.
C6_Witness ==
    /\ pc = "done"
    /\ UsesUnknownSubject
    /\ ~LacksTeacher /\ ~HasEmptyClass /\ ~ExceedsCapacity
    /\ model = "created"
    /\ ~solverInvoked
    /\ result.status = "fail"

(***************************************************************************)
(* C7.  Validation order: the failure returned for an input (with at least *)
(* one class) that violates several rules names the first violated rule in *)
(* the order UnknownSubject, MissingTeacher, EmptyClass, OverCapacity.      *)
(* Stated as the claim has it; the code checks UnknownSubject last.        *)
(***************************************************************************)
FirstViolatedRule ==
    IF UsesUnknownSubject THEN "UnknownSubject"
    ELSE IF LacksTeacher THEN "MissingTeacher"
    ELSE IF HasEmptyClass THEN "EmptyClass"
    ELSE "OverCapacity"

C7_ValidationOrder ==
    (pc = "done" /\ data.classes # <<>> /\ Defective) =>
        /\ result.status = "fail"
        /\ result.kind = FirstViolatedRule

(***************************************************************************)
(* C8.  Recount and penalties agree: in a "success" result the recounted   *)
(* consecutive_repeats is the number of true S1 penalty variables, and the *)
(* reported objective is 3 times the realized consecutive repeats plus the *)
(* realized same-period repeats.  Stated as the claim has it; the penalty  *)
(* variables of the code are false in every solution the solver returns.   *)
(***************************************************************************)
RealizedConsecutive ==
    Cardinality({k \in ConsecutiveKeys :
                    {k[3], k[3] + 1} \subseteq SlotsListing(k[1], k[2])})

RealizedSamePeriod ==
    Cardinality({k \in OtherKeys :
                    Cardinality({day \in 0 .. (DAYS - 1) :
                                    (day * periods_per_day + k[3]) \in SlotsListing(k[1], k[2])}) > 1})

C8_RecountAgreesWithPenalties ==
    Succeeded =>
        /\ result.consecutive_repeats = Cardinality(solution.consecutive)
        /\ result.solver_score = 3 * RealizedConsecutive + RealizedSamePeriod

(***************************************************************************)
(* C9.  Free periods: in a "success" result free_periods of a class is the *)
(* number of its slots with an empty subject list, which is SLOTS minus    *)
(* the sum of the Periods of its subjects.                                 *)
(***************************************************************************)
C9_FreePeriods ==
    Succeeded =>
        \A i \in 1 .. Len(data.classes) :
            LET c == data.classes[i].class
            IN /\ result.free_periods[c] =
                      Cardinality({s \in Slots : result.timetable[c][s] = <<>>})
               /\ result.free_periods[c] = DAYS * periods_per_day - ClassLoad(i)

\* A success in which a class with two subjects keeps free slots.
C9_Witness ==
    /\ Succeeded
    /\ \E i \in 1 .. Len(data.classes) :
          /\ Len(data.classes[i].subjects) = 2
          /\ ClassLoad(i) = 2
          /\ result.free_periods[data.classes[i].class] = SLOTS - 2

(***************************************************************************)
(* C10.  S1 penalty: in the assignment the solver returns, the penalty     *)
(* variable of (class, subject, s), 0 <= s < SLOTS - 1, is true if and     *)
(* only if the decision variables of the class and subject at s and s + 1  *)
(* are both true.  Stated as the claim has it; lines 89-92 only make the   *)
(* penalty variable imply the two decision variables.                      *)
(***************************************************************************)
C10_ConsecutivePenaltyIff ==
    status = "OPTIMAL" =>
        \A k \in ConsecutiveKeys :
            (k \in solution.consecutive) <=>
                /\ k[3] \in solution.sched[<<k[1], k[2]>>]
                /\ (k[3] + 1) \in solution.sched[<<k[1], k[2]>>]

(***************************************************************************)
(* C11.  S2 penalty: in the assignment the solver returns, the penalty     *)
(* variable of (class, subject, p), 0 <= p < periods_per_day, is true if   *)
(* and only if more than one of the slots day * periods_per_day + p, day   *)
(* in 0 .. 4, is assigned to the subject for the class.  Stated as the     *)
(* claim has it; line 100 only makes the penalty variable imply the sum.   *)
(***************************************************************************)
C11_SamePeriodPenaltyIff ==
    status = "OPTIMAL" =>
        \A k \in OtherKeys :
            (k \in solution.other) <=>
                Cardinality({day \in 0 .. 4 :
                                (day * periods_per_day + k[3]) \in
                                    solution.sched[<<k[1], k[2]>>]}) > 1

(***************************************************************************)
(* C12.  Validation precedes model construction: the model and its         *)
(* decision variables exist only for an input that passed the four checks  *)
(* (UnknownSubject, MissingTeacher, EmptyClass, OverCapacity), and a call  *)
(* that ended in a validation failure has created no model and no decision *)
(* variable.  Stated as the claim has it; the code looks for an undeclared *)
(* subject inside the loop that creates the variables (lines 51-52), after *)
(* the model of line 43 exists.                                            *)
(***************************************************************************)
ValidationKinds == {"UnknownSubject", "MissingTeacher", "EmptyClass", "OverCapacity"}

C12_ValidationPrecedesModel ==
    /\ (model = "created" \/ schedule # {}) => ~Defective
    /\ (pc = "done" /\ result.status = "fail" /\ result.kind \in ValidationKinds) =>
           (model = "none" /\ schedule = {})
====
